---------------------------- MODULE Spec2Model ----------------------------
(***************************************************************************)
(* Model of the MANA astrology engine (app/astrology.py, app/main.py).     *)
(*                                                                         *)
(* Numbers.  The program computes on binary floating point.  A float is    *)
(* modelled as an integer count of ticks (1 tick = 2^-FracBits degree)     *)
(* that has at most Precision significant bits; every arithmetic result    *)
(* is rounded to the nearest such value, ties to even (Fl).  Python's      *)
(* round(x, 2) yields the float nearest to n/100: it is modelled by the    *)
(* integer n (hundredths of a degree).                                     *)
(***************************************************************************)
EXTENDS Integers, Sequences, FiniteSets, TLC

VARIABLES
    pc,        \* control point of the running operation
    req,       \* the arguments of the running operation
    env,       \* what the external collaborators will answer
    resp,      \* the value returned (or the exception raised)
    calls,     \* call counters: geocode_place, tzid_from_latlon, calculate_chart
    swe_log,   \* calls the latest chart computation made to the provider (swisseph)
    scan       \* locals of find_asc_boundary

vars == <<pc, req, env, resp, calls, swe_log, scan>>

None == "None"

\* ---------------------------------------------------------------- floats

\* significant bits of the modelled float
Precision == 13
\* fractional bits of one tick
FracBits == 8

TicksPerDeg == 2 ^ FracBits

Deg(n) == n * TicksPerDeg

Abs(x) == IF x < 0 THEN -x ELSE x

\* spacing of the representable values around magnitude a
Ulp(a) ==
    LET base == 2 ^ Precision
    IN  IF a < base THEN 1
        ELSE IF a < 2 * base THEN 2
        ELSE IF a < 4 * base THEN 4
        ELSE IF a < 8 * base THEN 8
        ELSE IF a < 16 * base THEN 16
        ELSE IF a < 32 * base THEN 32
        ELSE 64

\* the multiple of u nearest to a >= 0, ties to the even multiple
NearestEven(a, u) ==
    LET q == a \div u
        r == a % u
    IN  IF 2 * r < u THEN q * u
        ELSE IF 2 * r > u THEN (q + 1) * u
        ELSE IF q % 2 = 0 THEN q * u ELSE (q + 1) * u

\* round-to-nearest, ties-to-even, of the exact value x
Fl(x) == IF x < 0 THEN -NearestEven(-x, Ulp(-x)) ELSE NearestEven(x, Ulp(x))

FAdd(a, b) == Fl(a + b)
FSub(a, b) == Fl(a - b)

\* Python's float %: C fmod (exact, sign of the dividend), then the divisor
\* is added when the signs differ (a rounded addition)
PyMod(x, m) ==
    LET r == IF x >= 0 THEN x % m ELSE -((-x) % m)
    IN  IF r = 0 THEN 0
        ELSE IF r < 0 THEN FAdd(r, m)
        ELSE r

\* Python's float //, for a dividend in [0, 360] and a positive divisor
PyFloorDiv(x, m) == x \div m

\* round(x, 2) for x >= 0: hundredths of a degree, exact ties to even
Round2(x) ==
    LET num == x * 100
        q == num \div TicksPerDeg
        r == num % TicksPerDeg
    IN  IF 2 * r < TicksPerDeg THEN q
        ELSE IF 2 * r > TicksPerDeg THEN q + 1
        ELSE IF q % 2 = 0 THEN q ELSE q + 1

\* ---------------------------------------------------------------- config

\* the twelve names, written without their accents
SIGN_NAMES_ES ==
    << "Aries", "Tauro", "Geminis", "Cancer", "Leo", "Virgo",
       "Libra", "Escorpio", "Sagitario", "Capricornio", "Acuario", "Piscis" >>

\* ---------------------------------------------------------------- lon_to_sign

\* idx, deg and the lookup SIGN_NAMES_ES[idx], for lon_norm = lon % 360.0;
\* the lookup raises IndexError when idx is 12
SignOfNorm(lon_norm) ==
    LET idx == PyFloorDiv(lon_norm, Deg(30)) IN
    IF idx + 1 > Len(SIGN_NAMES_ES)
    THEN [ok |-> FALSE, exc |-> "IndexError"]
    ELSE [ok |-> TRUE, sign |-> SIGN_NAMES_ES[idx + 1],
          deg |-> Round2(FSub(lon_norm, idx * Deg(30)))]

\* a longitude (ticks) to (sign name, degree in sign in hundredths)
lon_to_sign(lon) == SignOfNorm(PyMod(lon, Deg(360)))

\* ---------------------------------------------------------------- _aspects

ASPECTS_MAJOR ==
    << [name |-> "conjunction", deg |-> 0], [name |-> "sextile", deg |-> 60],
       [name |-> "square", deg |-> 90], [name |-> "trine", deg |-> 120],
       [name |-> "opposition", deg |-> 180] >>

ASPECTS_MINOR ==
    << [name |-> "quincunx", deg |-> 150], [name |-> "semisquare", deg |-> 45],
       [name |-> "sesquisquare", deg |-> 135], [name |-> "quintile", deg |-> 72] >>

\* a tolerance of 8 for every aspect
MaxOrbAllWide(asp_name) == 8

\* max_orb = 8 if asp_name in [conjunction, opposition, square, trine] else 6
MaxOrb(asp_name) ==
    IF asp_name \in {"conjunction", "opposition", "square", "trine"} THEN 8 ELSE 6

\* diff = abs((la - lb + 180) % 360 - 180)
Separation(la, lb) ==
    Abs(FSub(PyMod(FAdd(FSub(la, lb), Deg(180)), Deg(360)), Deg(180)))

\* the inner for loop with its break: the entry appended for one pair, if any
RECURSIVE FirstMatch(_, _, _, _, _)
FirstMatch(a, b, diff, asp_list, k) ==
    IF k > Len(asp_list) THEN << >>
    ELSE LET orb == Abs(FSub(diff, Deg(asp_list[k].deg)))
         IN  IF orb <= Deg(MaxOrb(asp_list[k].name))
             THEN << [a |-> a, b |-> b, type |-> asp_list[k].name, orb |-> Round2(orb)] >>
             ELSE FirstMatch(a, b, diff, asp_list, k + 1)

\* for j in range(i + 1, len(names)): the entries of body i with the later ones
RECURSIVE InnerLoop(_, _, _, _)
InnerLoop(planets, asp_list, i, j) ==
    IF j > Len(planets) THEN << >>
    ELSE FirstMatch(planets[i].name, planets[j].name,
                    Separation(planets[i].lon, planets[j].lon), asp_list, 1)
         \o InnerLoop(planets, asp_list, i, j + 1)

\* for i in range(len(names)), over names = list(planets.keys())
RECURSIVE PairLoop(_, _, _)
PairLoop(planets, asp_list, i) ==
    IF i > Len(planets) THEN << >>
    ELSE InnerLoop(planets, asp_list, i, i + 1) \o PairLoop(planets, asp_list, i + 1)

\* planets: the dict in insertion order, a sequence of entries
Aspects(planets, use_minor) ==
    LET asp_list == ASPECTS_MAJOR \o (IF use_minor THEN ASPECTS_MINOR ELSE << >>)
    IN  PairLoop(planets, asp_list, 1)

\* ---------------------------------------------------------------- exceptions

\* the classes an exception type is an instance of (besides Exception)
ExcClasses(type) ==
    IF type = "ZoneInfoNotFoundError" THEN {"ZoneInfoNotFoundError", "KeyError", "LookupError"}
    ELSE IF type = "IndexError" THEN {"IndexError", "LookupError"}
    ELSE {type}

Raise(type, msg) == [kind |-> "raise", exc |-> [type |-> type, msg |-> msg]]
Return(value) == [kind |-> "return", value |-> value]

\* ---------------------------------------------------------------- time

ValidDates == {"1990-06-15"}

\* a time text: the string "HH:MM" of two numbers, None, "" or another string
Time(h, m) == [raw |-> "HH:MM", hh |-> h, mm |-> m]
TimeNone == [raw |-> "None", hh |-> 0, mm |-> 0]
TimeEmpty == [raw |-> "", hh |-> 0, mm |-> 0]
TimeBad == [raw |-> "2pm", hh |-> 0, mm |-> 0]

\* datetime.strptime(f"{birth_date} {birth_time_local}", "%Y-%m-%d %H:%M")
StrptimeOk(birth_date, birth_time_local) ==
    /\ birth_date \in ValidDates
    /\ birth_time_local.raw = "HH:MM"
    /\ birth_time_local.hh \in 0..23
    /\ birth_time_local.mm \in 0..59

\* ZoneInfo(tzid): a zone, ZoneInfoNotFoundError (a KeyError) for a key that
\* names no zone, ValueError for a key that is no normalized relative path
ZoneTable ==
    [tz \in {"America/Santiago", "UTC"} |->
        IF tz = "UTC" THEN [offset_minutes |-> 0, dst |-> FALSE]
        ELSE [offset_minutes |-> -240, dst |-> FALSE]]

MalformedZoneKeys == {"", "../x"}

ZoneInfo(tzid) ==
    IF tzid \in DOMAIN ZoneTable THEN Return(ZoneTable[tzid])
    ELSE IF tzid \in MalformedZoneKeys
    THEN Raise("ValueError", "ZoneInfo keys must be normalized relative paths")
    ELSE Raise("ZoneInfoNotFoundError", "No time zone found with key")

\* ---------------------------------------------------------------- provider

PLANET_NAMES ==
    << "Sun", "Moon", "Mercury", "Venus", "Mars", "Jupiter", "Saturn", "Uranus",
       "Neptune", "Pluto", "TrueNode", "MeanNode", "Chiron", "Lilith" >>

Bodies == { PLANET_NAMES[i] : i \in 1..Len(PLANET_NAMES) }

HOUSE_SYS_MAP == [Placidus |-> "P", Koch |-> "K", Equal |-> "E"]

HouseSystems == {"Placidus", "WholeSign", "Koch", "Equal"}

\* HOUSE_SYS_MAP.get(house_system, HOUSE_SYS_MAP["Placidus"])
HouseSysCode(house_system) ==
    IF house_system \in DOMAIN HOUSE_SYS_MAP
    THEN HOUSE_SYS_MAP[house_system] ELSE HOUSE_SYS_MAP["Placidus"]

\* swe.houses_ex(jd_ut, lat, lon, hsys, FLG_SWIEPH): the call as logged
HousesExCall(hsys) == [fn |-> "houses_ex", body |-> None, hsys |-> hsys, flags |-> {"SWIEPH"}]

\* flags = swe.FLG_SWIEPH | swe.FLG_SPEED
PlanetFlags == {"SWIEPH", "SPEED"}

\* swe.calc_ut(jd_ut, pid, flags): the call as logged
CalcUtCall(name) == [fn |-> "calc_ut", body |-> name, hsys |-> None, flags |-> PlanetFlags]

\* the cusps the provider returns: 12 values, after a placeholder when 13
ProviderCusps(prov) ==
    LET twelve == [k \in 1..12 |-> PyMod(FAdd(prov.asc, Deg(30 * (k - 1))), Deg(360))]
    IN  IF prov.cusp_len = 13 THEN << 0 >> \o twelve ELSE twelve

\* ---------------------------------------------------------------- _cusps_to_houses

SignPos(lon) ==
    LET r == lon_to_sign(lon) IN [sign |-> r.sign, deg |-> r.deg, lon |-> lon]

CuspsToHouses(cusps) ==
    LET n == Len(cusps)
        cusp_lon(house_num) == IF n = 13 THEN cusps[house_num + 1] ELSE cusps[house_num]
    IN  IF n \notin {12, 13} THEN Raise("RuntimeError", "Unexpected cusps length")
        ELSE IF \E i \in 1..12 : ~lon_to_sign(cusp_lon(i)).ok
        THEN Raise("IndexError", "list index out of range")
        ELSE Return([i \in 1..12 |-> SignPos(cusp_lon(i))])

\* ---------------------------------------------------------------- calculate_chart

\* whole-sign cusps counted from the sign after the ascendant's
WholeSignHousesShifted(asc_lon) ==
    LET asc_sign == lon_to_sign(asc_lon).sign
        asc_i == (CHOOSE i \in 1..12 : SIGN_NAMES_ES[i] = asc_sign) - 1
    IN  [i \in 1..12 |->
            LET sign_i == (asc_i + i) % 12
                cusp_lon == sign_i * Deg(30)
            IN  [sign |-> lon_to_sign(cusp_lon).sign, deg |-> 0, lon |-> cusp_lon]]

\* the WholeSign branch: cusps from the sign of the ascendant
WholeSignHouses(asc_lon) ==
    LET asc_sign == lon_to_sign(asc_lon).sign
        asc_i == (CHOOSE i \in 1..12 : SIGN_NAMES_ES[i] = asc_sign) - 1
    IN  [i \in 1..12 |->
            LET sign_i == (asc_i + i - 1) % 12
                cusp_lon == sign_i * Deg(30)
            IN  [sign |-> lon_to_sign(cusp_lon).sign, deg |-> 0, lon |-> cusp_lon]]

\* houses, asc_lon and mc_lon, once _cusps_to_houses has answered h
HousesFromCusps(h, prov, log) ==
    IF h.kind = "raise" THEN [res |-> h, log |-> log]
    ELSE [res |-> Return([houses |-> h.value, asc_lon |-> prov.asc, mc_lon |-> prov.mc]),
          log |-> log]

\* Houses + Angles: the provider call, then houses, asc_lon and mc_lon
HousesAndAngles(house_system, prov) ==
    LET hsys == IF house_system = "WholeSign" THEN HOUSE_SYS_MAP["Placidus"]
                ELSE HouseSysCode(house_system)
        log == << HousesExCall(hsys) >>
    IN  IF hsys \in prov.houses_fail
        THEN [res |-> Raise("swe.Error", "swe.houses_ex failed"), log |-> log]
        ELSE IF house_system = "WholeSign"
        THEN IF ~lon_to_sign(prov.asc).ok
             THEN [res |-> Raise("IndexError", "list index out of range"), log |-> log]
             ELSE [res |-> Return([houses |-> WholeSignHouses(prov.asc),
                                   asc_lon |-> prov.asc, mc_lon |-> prov.mc]),
                   log |-> log]
        ELSE HousesFromCusps(CuspsToHouses(ProviderCusps(prov)), prov, log)

PlanetsInit == [planets |-> << >>, warnings |-> << >>, ephe_ok |-> TRUE, log |-> << >>]

\* the except branch of the planet loop
OnBodyFailure(acc, name, cause) ==
    [acc EXCEPT !.ephe_ok = FALSE,
                !.warnings = Append(@, [body |-> name, text |-> "unavailable", cause |-> cause])]

\* one pass of the planet loop: _planet_lon, lon_to_sign, planets[name] = ...
PlanetStep(acc0, name, prov) ==
    LET acc == [acc0 EXCEPT !.log = Append(@, CalcUtCall(name))]
        i == CHOOSE k \in 1..Len(PLANET_NAMES) : PLANET_NAMES[k] = name
        lon_p == prov.sky[i]
        r == lon_to_sign(lon_p)
    IN  IF name \in prov.fail THEN OnBodyFailure(acc, name, "swe.Error")
        ELSE IF ~r.ok THEN OnBodyFailure(acc, name, "IndexError")
        ELSE [acc EXCEPT !.planets = Append(@,
                 [name |-> name, sign |-> r.sign, deg |-> r.deg, lon |-> lon_p,
                  retrograde |-> name \in prov.retro])]

RECURSIVE CollectPlanets(_, _, _)
\* a planet loop that stops at the first body that fails
CollectPlanetsAbort(acc, i, prov) ==
    IF i > Len(PLANET_NAMES) \/ ~acc.ephe_ok THEN acc
    ELSE CollectPlanets(PlanetStep(acc, PLANET_NAMES[i], prov), i + 1, prov)

\* for name, pid in PLANET_IDS.items(): try ... except Exception
CollectPlanets(acc, i, prov) ==
    IF i > Len(PLANET_NAMES) THEN acc
    ELSE CollectPlanets(PlanetStep(acc, PLANET_NAMES[i], prov), i + 1, prov)

\* Aspects, Flags, meta and the returned dict, from the houses h, the two
\* angles and what the planet loop collected
ChartResult(a, zone, h, asc, mc, col, log) ==
    LET use_minor == "Minor" \in a.aspects_sets
        aspects == IF col.planets # << >> THEN Aspects(col.planets, use_minor) ELSE << >>
        flags == [time_approx |-> a.time_is_approx,
                  asc_near_sign_boundary |-> (asc.deg <= 200 \/ asc.deg >= 2800),
                  house_system_warning |-> (Abs(a.lat) >= Deg(66)),
                  ephemeris_files_ok |-> col.ephe_ok]
        meta == [place |-> a.birth_place, lat |-> a.lat, lon |-> a.lon, tzid |-> a.tzid,
                 offset_minutes |-> zone.value.offset_minutes, dst |-> zone.value.dst,
                 house_system |-> a.house_system, zodiac |-> a.zodiac,
                 ayanamsa |-> a.ayanamsa]
    IN  [res |-> Return([meta |-> meta, angles |-> [asc |-> asc, mc |-> mc],
                         houses |-> h.houses, planets |-> col.planets,
                         aspects |-> aspects, flags |-> flags, warnings |-> col.warnings]),
         log |-> log \o col.log]

\* the body after the houses: angles, the planet loop and what follows
ChartFromHouses(a, prov, zone, ha) ==
    IF ha.res.kind = "raise" THEN ha
    ELSE IF ~lon_to_sign(ha.res.value.asc_lon).ok \/ ~lon_to_sign(ha.res.value.mc_lon).ok
    THEN [res |-> Raise("IndexError", "list index out of range"), log |-> ha.log]
    ELSE ChartResult(a, zone, ha.res.value,
                     SignPos(ha.res.value.asc_lon), SignPos(ha.res.value.mc_lon),
                     CollectPlanets(PlanetsInit, 1, prov), ha.log)

\* the body after tz = ZoneInfo(tzid)
ChartInZone(a, prov, zone) ==
    IF zone.kind = "raise" THEN [res |-> zone, log |-> << >>]
    ELSE ChartFromHouses(a, prov, zone, HousesAndAngles(a.house_system, prov))

CalculateChart(a, prov) ==
    IF ~StrptimeOk(a.birth_date, a.birth_time_local)
    THEN [res |-> Raise("ValueError", "time data does not match format"), log |-> << >>]
    ELSE ChartInZone(a, prov, ZoneInfo(a.tzid))

\* ---------------------------------------------------------------- SpecChart

\* the provider's answers for one sample instant: degrees of the fourteen bodies
SampleSky ==
    << Deg(84), Deg(330), Deg(65), Deg(49), Deg(12), Deg(108), Deg(294),
       Deg(278), Deg(283), Deg(225), Deg(309), Deg(310), Deg(105), Deg(237) >>

SampleRetro == {"Saturn", "Uranus", "Neptune", "Pluto", "TrueNode", "MeanNode"}

\* ascendants: the middle of every sign, and both ends of the circle
AscSamples ==
    { Deg(30 * s + 15) : s \in 0..11 } \cup { 0, Deg(30) - 1, Deg(360) - Ulp(Deg(359)) }

\* bodies that may fail, or succeed, together
MaxFail == 2

FailFamilies ==
    { F \in SUBSET Bodies : Cardinality(F) <= MaxFail \/ Cardinality(Bodies \ F) <= MaxFail }

BaseArgs ==
    [birth_date |-> "1990-06-15", birth_time_local |-> Time(14, 30),
     birth_place |-> "Santiago, Chile", lat |-> -Deg(33), lon |-> -Deg(70),
     tzid |-> "America/Santiago", zodiac |-> "Tropical", house_system |-> "Placidus",
     ayanamsa |-> "None", aspects_sets |-> {"Major"}, time_is_approx |-> FALSE,
     approx_minutes |-> 0]

BaseProv ==
    [houses_fail |-> {}, asc |-> Deg(15), mc |-> Deg(285), cusp_len |-> 12,
     fail |-> {}, sky |-> SampleSky, retro |-> SampleRetro]

\* inputs that vary the house system and what the provider says of the houses
HouseCases ==
    { << [BaseArgs EXCEPT !.house_system = hs, !.lat = lat],
         [BaseProv EXCEPT !.asc = asc, !.mc = PyMod(FAdd(asc, Deg(270)), Deg(360)),
                          !.cusp_len = n, !.houses_fail = hf, !.fail = F] >> :
        hs \in HouseSystems \cup {"Campanus"}, lat \in {-Deg(33), Deg(89)},
        asc \in AscSamples, n \in {12, 13}, hf \in {{}, {"P"}, {"K", "E"}},
        F \in {Bodies \ {"Sun", "Moon"}} }

\* inputs that vary the zodiac, the aspect sets and the bodies that fail
PlanetCases ==
    { << [BaseArgs EXCEPT !.zodiac = z[1], !.ayanamsa = z[2], !.aspects_sets = as,
                          !.house_system = "Equal"],
         [BaseProv EXCEPT !.fail = F] >> :
        z \in {<<"Tropical", "None">>, <<"Sidereal", "Lahiri">>},
        as \in {{"Major"}, {"Major", "Minor"}}, F \in FailFamilies }

\* inputs that vary the date, the time and the zone
TimeCases ==
    { << [BaseArgs EXCEPT !.birth_date = d, !.birth_time_local = t, !.tzid = tz],
         [BaseProv EXCEPT !.fail = Bodies \ {"Sun", "Moon"}] >> :
        d \in {"1990-06-15", "15/06/1990"}, t \in {Time(14, 30), Time(0, 0), Time(25, 0), TimeBad},
        tz \in {"America/Santiago", "UTC", "Mars/Phobos", "../x"} }

NoCalls == [geocode |-> 0, tz |-> 0, chart |-> 0]

InitChart ==
    /\ pc = "call"
    /\ \E c \in HouseCases \cup PlanetCases \cup TimeCases :
          /\ req = [fn |-> "calculate_chart", args |-> c[1]]
          /\ env = c[2]
    /\ resp = None
    /\ calls = NoCalls
    /\ swe_log = << >>
    /\ scan = None

ChartCall ==
    /\ pc = "call"
    /\ req.fn = "calculate_chart"
    /\ LET r == CalculateChart(req.args, env)
       IN  /\ resp' = r.res
           /\ swe_log' = r.log
    /\ calls' = [calls EXCEPT !.chart = @ + 1]
    /\ pc' = "done"
    /\ UNCHANGED <<req, env, scan>>

NextChart == ChartCall

SpecChart == InitChart /\ [][NextChart]_vars

ChartReturned == pc = "done" /\ req.fn = "calculate_chart" /\ resp.kind = "return"

\* the chart computation got past the time conversion and the house resolution
ChartInputsFine ==
    /\ pc = "done" /\ req.fn = "calculate_chart"
    /\ StrptimeOk(req.args.birth_date, req.args.birth_time_local)
    /\ req.args.tzid \in DOMAIN ZoneTable
    /\ (IF req.args.house_system = "WholeSign" THEN "P"
        ELSE HouseSysCode(req.args.house_system)) \notin env.houses_fail

NamesOf(entries) == [i \in 1..Len(entries) |-> entries[i].name]
BodiesOf(entries) == [i \in 1..Len(entries) |-> entries[i].body]
IsFailed(name) == name \in env.fail
IsResolved(name) == name \notin env.fail
IsCalcUt(c) == c.fn = "calc_ut"

\* C4: for every set F of bodies whose lookup fails, the chart is still
\* returned, planets holds exactly the bodies not in F, warnings holds one
\* warning per body of F naming it, in catalog order, ephemeris_files_ok is
\* false exactly when F is not empty, and every body is looked up
C4_PartialBodies ==
    ChartInputsFine =>
        /\ resp.kind = "return"
        /\ NamesOf(resp.value.planets) = SelectSeq(PLANET_NAMES, IsResolved)
        /\ BodiesOf(resp.value.warnings) = SelectSeq(PLANET_NAMES, IsFailed)
        /\ resp.value.flags.ephemeris_files_ok = (env.fail = {})
        /\ BodiesOf(SelectSeq(swe_log, IsCalcUt)) = PLANET_NAMES

C4_Witness ==
    /\ ChartReturned
    /\ env.fail = {"Moon", "Chiron"}
    /\ Len(resp.value.planets) = 12
    /\ BodiesOf(resp.value.warnings) = << "Moon", "Chiron" >>

\* C5: for zodiac Sidereal the ayanamsa is set on the provider before the
\* first per-body request and every per-body request carries the sidereal
\* flag; for Tropical no per-body request carries it
C5_SiderealRequests ==
    ChartReturned =>
        IF req.args.zodiac = "Sidereal"
        THEN /\ \A i \in 1..Len(swe_log) :
                    swe_log[i].fn = "calc_ut" => "SIDEREAL" \in swe_log[i].flags
             /\ \E i \in 1..Len(swe_log) :
                    /\ swe_log[i].fn = "set_sid_mode"
                    /\ \A j \in 1..Len(swe_log) : swe_log[j].fn = "calc_ut" => i < j
        ELSE \A i \in 1..Len(swe_log) :
                    swe_log[i].fn = "calc_ut" => "SIDEREAL" \notin swe_log[i].flags

\* C9: a WholeSign chart has houses 1..12, every cusp at degree 0.0, house 1
\* in the sign holding the ascendant, house k in the sign k-1 places later
\* with wrap-around, every sign once, and the Placidus angles unchanged
C9_WholeSign ==
    (ChartReturned /\ req.args.house_system = "WholeSign") =>
        LET h == resp.value.houses
            first == env.asc \div Deg(30)
        IN  /\ DOMAIN h = 1..12
            /\ \A k \in 1..12 :
                  /\ h[k].deg = 0
                  /\ h[k].sign = SIGN_NAMES_ES[((first + k - 1) % 12) + 1]
            /\ { h[k].sign : k \in 1..12 } = { SIGN_NAMES_ES[i] : i \in 1..12 }
            /\ Cardinality({ h[k].sign : k \in 1..12 }) = 12
            /\ resp.value.angles.asc.lon = env.asc
            /\ resp.value.angles.mc.lon = env.mc
            /\ swe_log[1] = HousesExCall("P")

C9_Witness ==
    /\ ChartReturned /\ req.args.house_system = "WholeSign"
    /\ env.asc = Deg(345)
    /\ resp.value.houses[1].sign = "Piscis"
    /\ resp.value.houses[2].sign = "Aries"
    /\ resp.value.houses[12].sign = "Acuario"

\* ---------------------------------------------------------------- natal_chart

\* Optional[float]: None, or a float
NoFloat == [isnone |-> TRUE, v |-> 0]
Float(x) == [isnone |-> FALSE, v |-> x]

ErrorResponse(error, message) == [error |-> error, message |-> message, details |-> None]

\* birth_time_local is None
TimeMissingNoneOnly(r) == r.birth_time_local.raw = "None"

\* not req.birth_time_local
TimeMissing(r) == r.birth_time_local.raw \in {"None", ""}

\* geocode_place(place): the coordinates, or the exception raised
GeocodePlace(e) ==
    IF e.geocode = "found" THEN Return(e.geo_latlon)
    ELSE IF e.geocode = "not_found" THEN Raise("GeocodeError", "Place not found")
    ELSE IF e.geocode = "http_error" THEN Raise("GeocodeError", "Geocoding failed: 500")
    ELSE Raise("ConnectionError", "connection failed")

\* tzid_from_latlon(lat, lon)
TzidFromLatLon(e) ==
    IF e.tz = "found" THEN Return(e.tz_name)
    ELSE Raise("TimezoneResolveError", "Unable to resolve IANA timezone from coordinates")

\* except (GeocodeError, TimezoneResolveError, ValueError) ... except Exception
ExceptTag(exc) ==
    IF ExcClasses(exc.type) \cap {"GeocodeError", "TimezoneResolveError", "ValueError"} # {}
    THEN "bad_request" ELSE "server_error"

Caught(exc) == Return(ErrorResponse(ExceptTag(exc), exc.msg))

\* the handler: [res, calls, log]
NatalChart(r, e) ==
    IF TimeMissing(r)
    THEN [res |-> Return(ErrorResponse("missing_time",
                         "birth_time_local is required for houses/ASC")),
          calls |-> NoCalls, log |-> << >>]
    ELSE LET
        need_geo == r.lat.isnone \/ r.lon.isnone
        geo == IF need_geo THEN GeocodePlace(e) ELSE Return(<< r.lat.v, r.lon.v >>)
        c1 == [NoCalls EXCEPT !.geocode = IF need_geo THEN 1 ELSE 0]
    IN  IF geo.kind = "raise" THEN [res |-> Caught(geo.exc), calls |-> c1, log |-> << >>]
    ELSE LET
        need_tz == r.tzid \in {None, ""}
        tz == IF need_tz THEN TzidFromLatLon(e) ELSE Return(r.tzid)
        c2 == [c1 EXCEPT !.tz = IF need_tz THEN 1 ELSE 0]
    IN  IF tz.kind = "raise" THEN [res |-> Caught(tz.exc), calls |-> c2, log |-> << >>]
    ELSE LET
        ch == CalculateChart(
                [birth_date |-> r.birth_date, birth_time_local |-> r.birth_time_local,
                 birth_place |-> r.birth_place, lat |-> geo.value[1], lon |-> geo.value[2],
                 tzid |-> tz.value, zodiac |-> r.zodiac, house_system |-> r.house_system,
                 ayanamsa |-> r.ayanamsa, aspects_sets |-> r.aspects,
                 time_is_approx |-> r.time_is_approx, approx_minutes |-> r.approx_minutes],
                e.prov)
        c3 == [c2 EXCEPT !.chart = 1]
    IN  IF ch.res.kind = "raise"
        THEN [res |-> Caught(ch.res.exc), calls |-> c3, log |-> ch.log]
        ELSE [res |-> ch.res, calls |-> c3, log |-> ch.log]

\* ---------------------------------------------------------------- SpecReq

FewBodies == Bodies \ {"Sun", "Moon"}

Requests ==
    { [birth_date |-> d, birth_time_local |-> t, time_is_approx |-> FALSE,
       approx_minutes |-> 0, birth_place |-> "Santiago, Chile",
       lat |-> ll[1], lon |-> ll[2], tzid |-> tz, house_system |-> hs,
       zodiac |-> "Tropical", ayanamsa |-> "None", aspects |-> {"Major"}] :
        d \in {"1990-06-15", "15/06/1990"},
        t \in {TimeNone, TimeEmpty, Time(14, 30), TimeBad},
        ll \in {<<NoFloat, NoFloat>>, <<Float(Deg(89)), NoFloat>>,
               <<Float(Deg(89)), Float(Deg(10))>>},
        tz \in {None, "", "America/Santiago", "Mars/Phobos", "../x"},
        hs \in HouseSystems }

Environments ==
    { [geocode |-> g, geo_latlon |-> << -Deg(33), -Deg(70) >>, tz |-> z,
       tz_name |-> "America/Santiago",
       prov |-> [BaseProv EXCEPT !.houses_fail = hf, !.fail = FewBodies]] :
        g \in {"found", "not_found", "http_error", "connection_error"},
        z \in {"found", "none"},
        hf \in {{}, {"P"}, {"P", "K", "E"}} }

InitReq ==
    /\ pc = "call"
    /\ \E r \in Requests : req = [fn |-> "natal_chart", r |-> r]
    /\ env \in Environments
    /\ resp = None
    /\ calls = NoCalls
    /\ swe_log = << >>
    /\ scan = None

NatalChartCall ==
    /\ pc = "call"
    /\ req.fn = "natal_chart"
    /\ LET out == NatalChart(req.r, env)
       IN  /\ resp' = out.res
           /\ calls' = out.calls
           /\ swe_log' = out.log
    /\ pc' = "done"
    /\ UNCHANGED <<req, env, scan>>

NextReq == NatalChartCall

SpecReq == InitReq /\ [][NextReq]_vars

ReqDone == pc = "done" /\ req.fn = "natal_chart"

IsError(tag) == "error" \in DOMAIN resp.value /\ resp.value.error = tag

HousesExCodes ==
    LET IsHousesEx(c) == c.fn = "houses_ex"
        h == SelectSeq(swe_log, IsHousesEx)
    IN  [i \in 1..Len(h) |-> h[i].hsys]

\* C1: when the computation with the requested house system fails with a
\* computation error, natal_chart retries the whole computation exactly once
\* with "Equal"; a successful retry returns the chart with a warning that
\* names the original system and the fallback, and server_error is returned
\* only when the retry fails too
C1_FallbackOnce ==
    (ReqDone /\ Len(swe_log) > 0 /\ swe_log[1].hsys \in env.prov.houses_fail) =>
        /\ calls.chart = 2
        /\ Len(HousesExCodes) = 2 /\ HousesExCodes[2] = "E"
        /\ IF "E" \in env.prov.houses_fail
           THEN IsError("server_error")
           ELSE /\ "error" \notin DOMAIN resp.value
                /\ resp.value.meta.house_system = "Equal"
                /\ resp.value.warnings # << >>

\* C2: a request with no local birth time is answered with the missing_time
\* error, and neither the geocoder, nor the timezone resolver, nor the chart
\* computation (nor the provider) has been called
C2_MissingTimeFirst ==
    (ReqDone /\ req.r.birth_time_local.raw \in {"None", ""}) =>
        /\ resp = Return(ErrorResponse("missing_time",
                         "birth_time_local is required for houses/ASC"))
        /\ calls.geocode = 0 /\ calls.tz = 0 /\ calls.chart = 0
        /\ swe_log = << >>

C2_Witness ==
    /\ ReqDone
    /\ req.r.birth_time_local = TimeEmpty
    /\ req.r.lat = NoFloat /\ req.r.tzid = None
    /\ env.geocode = "not_found"
    /\ IsError("missing_time")
    /\ calls = NoCalls

\* C3: an unparsable date or time, an unknown timezone identifier given to
\* the time conversion, and a geocoder lookup without a match are each
\* answered with bad_request, never server_error, and never retried
C3_ClientInputBadRequest ==
    LET no_match == calls.geocode = 1 /\ env.geocode = "not_found"
        unparsable == calls.chart >= 1
                      /\ ~StrptimeOk(req.r.birth_date, req.r.birth_time_local)
        unknown_zone == calls.chart >= 1
                        /\ StrptimeOk(req.r.birth_date, req.r.birth_time_local)
                        /\ req.r.tzid \notin {None, ""}
                        /\ req.r.tzid \notin DOMAIN ZoneTable
    IN  (ReqDone /\ (no_match \/ unparsable \/ unknown_zone)) =>
            /\ IsError("bad_request")
            /\ calls.chart <= 1
            /\ calls.geocode <= 1

\* ---------------------------------------------------------------- find_asc_boundary

\* range(0, 1440, ...): the end of the sweep
SweepEnd == 1440

\* range(0, 1439): the end of the minute-by-minute scan
ScanEnd == 1439

\* the step without its floor
StepOfNoFloor(step_minutes) == step_minutes

\* max(1, step_minutes)
StepOf(step_minutes) == IF step_minutes > 1 THEN step_minutes ELSE 1

\* (start + timedelta(minutes=i)).strftime("%H:%M")
TimeOfMinute(i) == Time(i \div 60, i % 60)

\* the arguments find_asc_boundary gives calculate_chart for minute i
ScanArgs(i) ==
    [birth_date |-> req.birth_date, birth_time_local |-> TimeOfMinute(i),
     birth_place |-> req.birth_place, lat |-> scan.lat, lon |-> scan.lon,
     tzid |-> scan.tzid, zodiac |-> req.zodiac, house_system |-> req.house_system,
     ayanamsa |-> "None", aspects_sets |-> {"Major"}, time_is_approx |-> FALSE,
     approx_minutes |-> 0]

\* deg <= 2 or deg >= 28
NearBoundary(deg) == deg <= 200 \/ deg >= 2800

\* what the provider may answer for one minute of the day
ScanProvs ==
    { [BaseProv EXCEPT !.asc = a, !.fail = FewBodies] : a \in {Deg(15), Deg(45), Deg(29)} }
    \cup { [BaseProv EXCEPT !.houses_fail = {"P"}, !.fail = FewBodies] }

NoProv == [BaseProv EXCEPT !.asc = -1]

\* the provider is a function of the instant: a minute the sweep sampled and
\* passed over answers again without failure and away from a boundary
SweepPassed(m, prov) ==
    (m % StepOf(req.step_minutes) = 0) =>
        /\ HouseSysCode(req.house_system) \notin prov.houses_fail
        /\ ~NearBoundary(lon_to_sign(prov.asc).deg)

\* the gate, then geocode_place and tzid_from_latlon, called outside any try
ScanStart ==
    /\ pc = "call"
    /\ req.fn = "find_asc_boundary"
    /\ IF ~env.enabled
       THEN /\ resp' = Return(ErrorResponse("disabled",
                              "Set ENABLE_TEST_ENDPOINTS=true to enable."))
            /\ pc' = "done"
            /\ UNCHANGED <<calls, scan>>
       ELSE LET geo == GeocodePlace(env)
                tz == TzidFromLatLon(env)
            IN  IF geo.kind = "raise"
                THEN /\ resp' = geo
                     /\ pc' = "done"
                     /\ calls' = [calls EXCEPT !.geocode = @ + 1]
                     /\ UNCHANGED scan
                ELSE IF tz.kind = "raise"
                THEN /\ resp' = tz
                     /\ pc' = "done"
                     /\ calls' = [calls EXCEPT !.geocode = @ + 1, !.tz = @ + 1]
                     /\ UNCHANGED scan
                ELSE /\ scan' = [i |-> 0, lat |-> geo.value[1], lon |-> geo.value[2],
                                 tzid |-> tz.value, prev |-> NoProv]
                     /\ pc' = "sweep"
                     /\ calls' = [calls EXCEPT !.geocode = @ + 1, !.tz = @ + 1]
                     /\ UNCHANGED resp
    /\ UNCHANGED <<req, env, swe_log>>

WarningSet(r) == { r.warnings[k] : k \in 1..Len(r.warnings) }

\* one pass of the first loop, r being what calculate_chart answered: what
\* the pass leaves in resp, pc, scan and swe_log, and the charts it computed
SweepPass(r) ==
    LET base == [resp |-> resp, pc |-> "done", scan |-> scan, log |-> r.log, charts |-> 1]
    IN  IF r.res.kind = "raise" THEN [base EXCEPT !.resp = r.res]
        ELSE IF NearBoundary(r.res.value.angles.asc.deg)
        THEN [base EXCEPT !.resp =
                 Return([found |-> TRUE, mode |-> "near_boundary", tzid |-> scan.tzid,
                         time_local |-> TimeOfMinute(scan.i),
                         asc |-> r.res.value.angles.asc, flags |-> r.res.value.flags,
                         warnings |-> r.res.value.warnings])]
        ELSE [base EXCEPT !.pc = "sweep",
                          !.scan = [scan EXCEPT !.i = @ + StepOf(req.step_minutes)]]

\* one pass of the first loop, or its end
SweepStep ==
    /\ pc = "sweep"
    /\ IF scan.i >= SweepEnd
       THEN /\ pc' = "minute"
            /\ scan' = [scan EXCEPT !.i = 0]
            /\ UNCHANGED <<resp, calls, swe_log>>
       ELSE \E prov \in ScanProvs :
            \E out \in {SweepPass(CalculateChart(ScanArgs(scan.i), prov))} :
                /\ resp' = out.resp
                /\ pc' = out.pc
                /\ scan' = out.scan
                /\ swe_log' = out.log
                /\ calls' = [calls EXCEPT !.chart = @ + out.charts]
    /\ UNCHANGED <<req, env>>

\* one pass of the second loop, r1 and r2 being what calculate_chart
\* answered for this minute and the next (from the provider's answer p2)
MinutePass(r1, r2, p2) ==
    LET base == [resp |-> resp, pc |-> "done", scan |-> scan, log |-> r2.log, charts |-> 2]
    IN  IF r1.res.kind = "raise"
        THEN [base EXCEPT !.resp = r1.res, !.log = r1.log, !.charts = 1]
        ELSE IF r2.res.kind = "raise" THEN [base EXCEPT !.resp = r2.res]
        ELSE IF r1.res.value.angles.asc.sign # r2.res.value.angles.asc.sign
        THEN [base EXCEPT !.resp =
                 Return([found |-> TRUE, mode |-> "sign_change", tzid |-> scan.tzid,
                         time_local |-> TimeOfMinute(scan.i),
                         asc |-> r1.res.value.angles.asc,
                         next_minute_asc |-> r2.res.value.angles.asc,
                         warnings |-> WarningSet(r1.res.value)
                                      \cup WarningSet(r2.res.value)])]
        ELSE [base EXCEPT !.pc = "minute",
                          !.scan = [scan EXCEPT !.i = @ + 1, !.prev = p2]]

\* one pass of the second loop, or its end
MinuteStep ==
    /\ pc = "minute"
    /\ IF scan.i >= ScanEnd
       THEN /\ resp' = Return([found |-> FALSE, tzid |-> scan.tzid])
            /\ pc' = "done"
            /\ UNCHANGED <<calls, swe_log, scan>>
       ELSE \E p1 \in (IF scan.prev = NoProv THEN ScanProvs ELSE {scan.prev}),
               p2 \in ScanProvs :
            /\ SweepPassed(scan.i, p1)
            /\ SweepPassed(scan.i + 1, p2)
            /\ \E r1 \in {CalculateChart(ScanArgs(scan.i), p1)} :
               \E r2 \in {IF r1.res.kind = "raise" THEN r1
                          ELSE CalculateChart(ScanArgs(scan.i + 1), p2)} :
               \E out \in {MinutePass(r1, r2, p2)} :
                   /\ resp' = out.resp
                   /\ pc' = out.pc
                   /\ scan' = out.scan
                   /\ swe_log' = out.log
                   /\ calls' = [calls EXCEPT !.chart = @ + out.charts]
    /\ UNCHANGED <<req, env>>

\* ---------------------------------------------------------------- SpecScan

StepInputs == {-5, 0, 1, 5, 720, 2000}

InitScan ==
    /\ pc = "call"
    /\ \E d \in {"1990-06-15", "15/06/1990"}, st \in StepInputs :
          req = [fn |-> "find_asc_boundary", birth_date |-> d,
                 birth_place |-> "Tromso, Norway", zodiac |-> "Tropical",
                 house_system |-> "Placidus", step_minutes |-> st]
    /\ \E en \in BOOLEAN, g \in {"found", "not_found"}, z \in {"found", "none"} :
          env = [enabled |-> en, geocode |-> g, geo_latlon |-> << Deg(69), Deg(19) >>,
                 tz |-> z, tz_name |-> "UTC"]
    /\ resp = None
    /\ calls = NoCalls
    /\ swe_log = << >>
    /\ scan = [i |-> 0, lat |-> 0, lon |-> 0, tzid |-> None, prev |-> NoProv]

NextScan == ScanStart \/ SweepStep \/ MinuteStep

SpecScan == InitScan /\ [][NextScan]_vars

\* what is left of a run: the passes of the two loops still to make
ScanRank ==
    IF pc = "call" THEN SweepEnd + ScanEnd + 4
    ELSE IF pc = "sweep"
    THEN (IF scan.i < SweepEnd THEN SweepEnd - scan.i ELSE 0) + ScanEnd + 3
    ELSE IF pc = "minute" THEN (ScanEnd - scan.i) + 1
    ELSE 0

\* C10 as stated: one run performs at most 1440 + 1439 chart computations
C10_AtMost2879 == calls.chart <= 1440 + 1439

\* C10: for every step_minutes one run ends (every step brings the end
\* nearer: the passes left to make decrease, never below zero, and none is
\* left exactly when the run has returned), the sweep makes at most 1440
\* chart computations, and the minute scan, which computes two charts per
\* minute, at most 2 * 1439 more
C10_BoundedRun ==
    /\ [][ScanRank' < ScanRank]_vars
    /\ [](ScanRank >= 0 /\ (ScanRank = 0 <=> pc = "done"))
    /\ [](pc = "sweep" => calls.chart <= SweepEnd)
    /\ [](calls.chart <= SweepEnd + 2 * ScanEnd)

C10_Witness ==
    /\ pc = "done" /\ req.step_minutes = 0
    /\ calls.chart = 1440 + 2 * 1439
    /\ resp.kind = "return" /\ resp.value.found = FALSE

\* ---------------------------------------------------------------- SpecAsp

\* bodies handed to the aspect detector
MaxBodies == 3

AspLons ==
    { Fl(Deg(d) + o * Ulp(Deg(d))) : d \in {0, 8, 66, 90, 180, 270}, o \in {0, 1} }

PlanetEntry(name, lon) ==
    LET r == lon_to_sign(lon)
    IN  [name |-> name, sign |-> r.sign, deg |-> r.deg, lon |-> lon, retrograde |-> FALSE]

Reverse(seq) == [i \in 1..Len(seq) |-> seq[Len(seq) + 1 - i]]

InitAsp ==
    /\ pc = "call"
    /\ \E n \in 0..MaxBodies, use_minor \in BOOLEAN :
          \E lons \in [1..n -> AspLons] :
             req = [fn |-> "_aspects",
                    planets |-> [i \in 1..n |-> PlanetEntry(PLANET_NAMES[i], lons[i])],
                    use_minor |-> use_minor]
    /\ env = None
    /\ resp = None
    /\ calls = None
    /\ swe_log = << >>
    /\ scan = None

\* _aspects on the mapping, and on the mapping with the longitudes of its
\* bodies exchanged (first with last, and so on)
AspectsCall ==
    /\ pc = "call"
    /\ req.fn = "_aspects"
    /\ LET p == req.planets
           lons == Reverse([i \in 1..Len(p) |-> p[i].lon])
           q == [i \in 1..Len(p) |-> PlanetEntry(p[i].name, lons[i])]
       IN  resp' = [out |-> Aspects(p, req.use_minor),
                    swapped |-> Aspects(q, req.use_minor)]
    /\ pc' = "done"
    /\ UNCHANGED <<req, env, calls, swe_log, scan>>

NextAsp == AspectsCall

SpecAsp == InitAsp /\ [][NextAsp]_vars

AspDone == pc = "done" /\ req.fn = "_aspects"

\* the catalog as the specification lists it: type, exact angle, maximum orb
AspectCatalog(use_minor) ==
    << <<"conjunction", 0, 8>>, <<"sextile", 60, 6>>, <<"square", 90, 8>>,
       <<"trine", 120, 8>>, <<"opposition", 180, 8>> >>
    \o (IF use_minor
        THEN << <<"quincunx", 150, 6>>, <<"semisquare", 45, 6>>,
                <<"sesquisquare", 135, 6>>, <<"quintile", 72, 6>> >>
        ELSE << >>)

\* |separation - exact angle| of entry k is within its maximum orb
Within(sep, cat, k) == Abs(FSub(sep, Deg(cat[k][2]))) <= Deg(cat[k][3])

\* the pairs (i, j), i < j, of n bodies in enumeration order
RECURSIVE PairsFrom(_, _)
PairsFrom(n, i) ==
    IF i > n THEN << >>
    ELSE [k \in 1..(n - i) |-> <<i, i + k>>] \o PairsFrom(n, i + 1)

\* C6: _aspects emits at most one aspect per unordered pair, of the first
\* catalog entry within its maximum orb, none when no entry is within
\* tolerance, and lists the pairs in body enumeration order
C6_FirstMatchInOrder ==
    AspDone =>
        LET p == req.planets
            cat == AspectCatalog(req.use_minor)
            out == resp.out
            sep(pr) == Separation(p[pr[1]].lon, p[pr[2]].lon)
            hit(pr) == \E k \in 1..Len(cat) : Within(sep(pr), cat, k)
            first(pr) == CHOOSE k \in 1..Len(cat) :
                            /\ Within(sep(pr), cat, k)
                            /\ \A m \in 1..(k - 1) : ~Within(sep(pr), cat, m)
            pairs == PairsFrom(Len(p), 1)
            matched == SelectSeq(pairs, hit)
        IN  /\ Len(out) = Len(matched)
            /\ \A x \in 1..Len(out) :
                  /\ out[x].a = p[matched[x][1]].name
                  /\ out[x].b = p[matched[x][2]].name
                  /\ out[x].type = cat[first(matched[x])][1]
                  /\ out[x].orb =
                        Round2(Abs(FSub(sep(matched[x]), Deg(cat[first(matched[x])][2]))))
            /\ \A x, y \in 1..Len(out) :
                  x # y => {out[x].a, out[x].b} # {out[y].a, out[y].b}

\* three bodies: the first two 66 degrees apart (within sextile and quintile
\* alike: sextile, listed first, wins), the first and third without an aspect
C6_Witness ==
    /\ AspDone /\ req.use_minor /\ Len(req.planets) = 3
    /\ req.planets[1].lon = Deg(66) /\ req.planets[2].lon = 0
    /\ req.planets[3].lon = Deg(90)
    /\ Len(resp.out) = 2
    /\ resp.out[1].type = "sextile" /\ resp.out[1].orb = 600
    /\ resp.out[2].a = "Moon" /\ resp.out[2].b = "Mercury" /\ resp.out[2].type = "square"

\* C7: the separation of two bodies lies in [0, 180], and exchanging la and
\* lb gives the same separation and the same aspect type and orb
C7_SeparationSymmetric ==
    (AspDone /\ Len(req.planets) = 2) =>
        LET la == req.planets[1].lon
            lb == req.planets[2].lon
            strip(s) == [i \in 1..Len(s) |-> [type |-> s[i].type, orb |-> s[i].orb]]
        IN  /\ Separation(la, lb) >= 0 /\ Separation(la, lb) <= Deg(180)
            /\ Separation(la, lb) = Separation(lb, la)
            /\ strip(resp.out) = strip(resp.swapped)
            /\ (Abs(la - lb) = Deg(90) =>
                  strip(resp.out) = << [type |-> "square", orb |-> 0] >>)

\* ---------------------------------------------------------------- SpecSign

\* turns of 360 degrees added to a longitude
MaxTurns == 2
\* ticks around a sign boundary that are sampled
MaxOff == 2

SignLons ==
    { Fl(s * Deg(30) + o) : s \in 0..12, o \in (-MaxOff..MaxOff) \cup {Deg(15) - Deg(30)} }

InitSign ==
    /\ pc = "call"
    /\ \E L \in SignLons, k \in -MaxTurns..MaxTurns :
          /\ Fl(L + k * Deg(360)) = L + k * Deg(360)
          /\ req = [fn |-> "lon_to_sign", lon |-> L, lon2 |-> L + k * Deg(360)]
    /\ env = None
    /\ resp = None
    /\ calls = None
    /\ swe_log = << >>
    /\ scan = None

LonToSignCall ==
    /\ pc = "call"
    /\ req.fn = "lon_to_sign"
    /\ resp' = [r1 |-> lon_to_sign(req.lon), r2 |-> lon_to_sign(req.lon2)]
    /\ pc' = "done"
    /\ UNCHANGED <<req, env, calls, swe_log, scan>>

NextSign == LonToSignCall

SpecSign == InitSign /\ [][NextSign]_vars

\* C8: for every longitude L and every k, lon_to_sign returns the same sign
\* for L and L + 360k, and the degree in sign it returns is in [0, 30)
C8_PeriodicAndBelow30 ==
    (pc = "done" /\ req.fn = "lon_to_sign") =>
        /\ resp.r1.ok /\ resp.r2.ok
        /\ resp.r1.sign = resp.r2.sign
        /\ resp.r1.deg >= 0 /\ resp.r1.deg < 3000
        /\ resp.r2.deg >= 0 /\ resp.r2.deg < 3000

=============================================================================
